---- MODULE Spec2Model ----
(***************************************************************************)
(* simplebroker: the per-queue engine (queue/queue.go) and the queue       *)
(* manager (queue/manager.go) as a state machine.                          *)
(*                                                                         *)
(* Every call of Put/Get is one entry of Calls, numbered in the order of   *)
(* invocation.  A message is tagged by the number of the Put that carries  *)
(* it (the tests send uniquely tagged messages); 0 is the empty string a   *)
(* Get returns next to an error.  The unbuffered channels of an engine     *)
(* (messageCh, getWaitStatusCh, expiredGetElementsCh) are rendezvous: the  *)
(* sender sits at its send until the dispatch goroutine takes the event,   *)
(* and both move in one step.  The one-slot channels of a call             *)
(* (confirmation, msgCh, createdElemCh, errCh) are variables.              *)
(***************************************************************************)
EXTENDS Integers, Sequences, FiniteSets, TLC

\* ---------------------------------------------------------------- bounds
MaxMessageNum == 2
MaxQueueNum == 1
NumCalls == 4
NumMgrCalls == 3
MaxStops == 2
MaxPathLen == 4

Calls == 1..(IF NumCalls > NumMgrCalls THEN NumCalls ELSE NumMgrCalls)
Engines == Calls
Names == 1..(MaxQueueNum + 1)
Timeouts == {0, 1}

VARIABLES
    nextCall,        \* number of the next call to be invoked
    kind,            \* kind[c]: "none" | "put" | "get"
    name,            \* name[c]: the queue name of a manager call, 0 for a direct engine call
    timeout,         \* timeout[c]: timeoutSeconds of a manager Get
    missed,          \* missed[c]: manager Put c found no queue under the read lock
    eng,             \* eng[c]: foundQueue of the call (0: nil)
    pc,              \* pc[c]: "idle" | "create" | "send" | "wait" | "done"
    ret,             \* ret[c]: what the call returned
    confirmation,    \* messageWithConfirmation.confirmation of Put c
    msgCh,           \* getWaitStatus.msgCh of Get c (0: empty)
    createdElemCh,   \* getWaitStatus.createdElemCh of Get c holds its list element
    errCh,           \* getWaitStatus.errCh of Get c
    exp,             \* the goroutine Get starts: "none" | "waitCtx" | "recvElem" | "send" | "done"
    queues,          \* queueManagerImpl.queues: name -> engine (0: absent)
    createdFor,      \* createdFor[e]: the name the factory was invoked for (history)
    createdBy,       \* createdBy[e]: the call that invoked the factory (history)
    mutex,           \* queueManagerImpl.mutex: "free" | "stop" (write-locked by Stop)
    toStop,          \* the queues the range loop of Stop has still to visit
    messages,        \* queueImpl.messages of engine e
    getWaitStatuses, \* queueImpl.getWaitStatuses of engine e
    wpc,             \* dispatch goroutine: "none" | "select" | "deliver" | "blocked" | "stopped"
    werr,            \* the local err of dispatch's messageCh case ("none" in the other cases)
    done,            \* queueImpl.done is closed
    stops,           \* number of Stop calls made
    panicked,        \* a goroutine panicked (close of closed channel)
    sequential,      \* history: no call was invoked while another was in flight
    request,         \* the *http.Request handed to ServeHTTP
    manager,         \* the handler's QueueManager: MockQueueManager{getIn, putIn, getOut, putOut}
    recorder,        \* the httptest.ResponseRecorder: WriteHeader calls and body writes
    errorLog,        \* what errorLogger printed
    hpc              \* ServeHTTP: "none" | "idle" | "served"

vars == <<nextCall, kind, name, timeout, missed, eng, pc, ret, confirmation, msgCh,
          createdElemCh, errCh, exp, queues, createdFor, createdBy, messages,
          getWaitStatuses, wpc, werr, done, stops, panicked, sequential,
          request, manager, recorder, errorLog, hpc, mutex, toStop>>

callVars == <<nextCall, kind, name, timeout, missed, eng, pc, ret, sequential>>
chanVars == <<confirmation, msgCh, createdElemCh, errCh>>
engineVars == <<messages, getWaitStatuses, wpc, werr>>
managerVars == <<queues, createdFor, createdBy>>
stopVars == <<done, stops, panicked>>
handlerVars == <<request, manager, recorder, errorLog, hpc>>
lockVars == <<mutex, toStop>>
brokerVars == <<callVars, chanVars, exp, engineVars, managerVars, stopVars, lockVars>>

\* ---------------------------------------------------------------- errors
ErrNoMessage == "NoMessage"
ErrTooManyItems == "TooManyItems"

\* The message a Put carries: its unique tag.
MessageOf(c) == c

Result(m, e) == [msg |-> m, err |-> e]
NoResult == Result(0, "none")

\* ------------------------------------------------------------ listAdapter
\* Push with the element put in front.
PushFront(l, v) == <<v>> \o l

\* a.data.PushBack(v)
Push(l, v) == Append(l, v)

\* Front taking the newest element.
FrontLast(l) == l[Len(l)]

\* a.data.Front(), the element Pop hands out
Front(l) == Head(l)

\* Pop leaving the front element in the list.
PopNothing(l) == l

\* the list after Pop's a.data.Remove(a.data.Front())
Pop(l) == Tail(l)

Empty(l) == Len(l) = 0

\* Remove leaving the list as it is.
RemoveNothing(l, v) == l

\* Remove unlinking the front element whatever elem is.
RemoveFront(l, v) == IF l = <<>> THEN <<>> ELSE Tail(l)

RECURSIVE Remove(_, _)
\* list.Remove(elem): unlinks elem when it is still an element of the list,
\* and does nothing otherwise.
Remove(l, v) ==
    IF l = <<>> THEN <<>>
    ELSE IF Head(l) = v THEN Tail(l)
    ELSE <<Head(l)>> \o Remove(Tail(l), v)

\* ---------------------------------------------------------------- Init
InitCommon ==
    /\ nextCall = 1
    /\ kind = [c \in Calls |-> "none"]
    /\ name = [c \in Calls |-> 0]
    /\ timeout = [c \in Calls |-> 1]
    /\ missed = [c \in Calls |-> FALSE]
    /\ eng = [c \in Calls |-> 0]
    /\ pc = [c \in Calls |-> "idle"]
    /\ ret = [c \in Calls |-> NoResult]
    /\ confirmation = [c \in Calls |-> "empty"]
    /\ msgCh = [c \in Calls |-> 0]
    /\ createdElemCh = [c \in Calls |-> FALSE]
    /\ errCh = [c \in Calls |-> "empty"]
    /\ exp = [c \in Calls |-> "none"]
    /\ queues = [n \in Names |-> 0]
    /\ createdFor = [e \in Engines |-> 0]
    /\ createdBy = [e \in Engines |-> 0]
    /\ mutex = "free"
    /\ toStop = {}
    /\ messages = [e \in Engines |-> <<>>]
    /\ getWaitStatuses = [e \in Engines |-> <<>>]
    /\ werr = [e \in Engines |-> "none"]
    /\ done = [e \in Engines |-> FALSE]
    /\ stops = 0
    /\ panicked = FALSE
    /\ sequential = TRUE

\* No handler is set up: the queue package used on its own.
NewRecorder == [codes |-> <<>>, body |-> <<>>]
NewMock(getOut, putOut) ==
    [getIn |-> [callsNum |-> 0, name |-> <<>>, timeout |-> 0],
     putIn |-> [callsNum |-> 0, name |-> <<>>, message |-> ""],
     getOut |-> getOut,
     putOut |-> putOut]
NoRequest == [method |-> "", path |-> <<>>, body |-> "", timeout |-> ""]

InitNoHandler ==
    /\ request = NoRequest
    /\ manager = NewMock([message |-> "", err |-> "nil"], [err |-> "nil"])
    /\ recorder = NewRecorder
    /\ errorLog = <<>>
    /\ hpc = "none"

\* newQueueImpl(MaxMessageNum): one engine, its dispatch goroutine started.
Init ==
    /\ InitCommon
    /\ InitNoHandler
    /\ wpc = [e \in Engines |-> IF e = 1 THEN "select" ELSE "none"]

\* newQueueManager(config, newQueue): no queue yet.
InitManager ==
    /\ InitCommon
    /\ InitNoHandler
    /\ wpc = [e \in Engines |-> "none"]

\* ------------------------------------------------------------ invocation
AllReturned == \A d \in 1..(nextCall - 1) : pc[d] = "done"

\* A new call c of kind k is invoked and reaches program point p.
Invoke(c, k, n, t, e, p, r) ==
    /\ nextCall' = c + 1
    /\ kind' = [kind EXCEPT ![c] = k]
    /\ name' = [name EXCEPT ![c] = n]
    /\ timeout' = [timeout EXCEPT ![c] = t]
    /\ eng' = [eng EXCEPT ![c] = e]
    /\ pc' = [pc EXCEPT ![c] = p]
    /\ ret' = [ret EXCEPT ![c] = r]
    /\ sequential' = (sequential /\ AllReturned)

\* queueImpl.Put up to its send on messageCh.
Put(e) ==
    /\ nextCall <= NumCalls
    /\ wpc[e] # "none"
    /\ Invoke(nextCall, "put", 0, 1, e, "send", NoResult)
    /\ UNCHANGED <<handlerVars, lockVars, missed, chanVars, exp, engineVars, managerVars, stopVars>>

\* queueImpl.Get up to its send on getWaitStatusCh.
Get(e) ==
    /\ nextCall <= NumCalls
    /\ wpc[e] # "none"
    /\ Invoke(nextCall, "get", 0, 1, e, "send", NoResult)
    /\ UNCHANGED <<handlerVars, lockVars, missed, chanVars, exp, engineVars, managerVars, stopVars>>

\* ------------------------------------------------------- queueImpl.dispatch
\* The capacity test with > for >=.
FullAbove(e) == Len(messages[e]) > MaxMessageNum

\* The capacity test that never rejects.
FullNever(e) == FALSE

\* dispatch's capacity test.
Full(e) == Len(messages[e]) >= MaxMessageNum

\* case newMsg := <-q.messageCh, up to the confirmation; deliverMessages follows.
DispatchMessage(e, c) ==
    /\ wpc[e] = "select"
    /\ kind[c] = "put" /\ pc[c] = "send" /\ eng[c] = e
    /\ LET err == IF Full(e) THEN ErrTooManyItems ELSE "nil" IN
       /\ werr' = [werr EXCEPT ![e] = err]
       /\ messages' = [messages EXCEPT ![e] =
                          IF Full(e) THEN @ ELSE Push(@, MessageOf(c))]
       /\ IF confirmation[c] = "empty"
          THEN /\ confirmation' = [confirmation EXCEPT ![c] = err]
               /\ wpc' = [wpc EXCEPT ![e] = "deliver"]
          ELSE /\ wpc' = [wpc EXCEPT ![e] = "blocked"]
               /\ UNCHANGED confirmation
    /\ pc' = [pc EXCEPT ![c] = "wait"]
    /\ UNCHANGED <<handlerVars, lockVars, nextCall, kind, name, timeout, missed, eng, ret, sequential, msgCh,
                   createdElemCh, errCh, exp, getWaitStatuses, managerVars, stopVars>>

\* The goroutine Get starts after its send: with timeoutSeconds <= 0 the
\* context is done from the start and <-ctx.Done() does not wait.
ExpiryStart(c) == IF timeout[c] <= 0 THEN "recvElem" ELSE "waitCtx"

\* case waitStatus := <-q.getWaitStatusCh, up to the send of the created
\* element; deliverMessages follows.  The caller goes on to its select.
DispatchGetWait(e, c) ==
    /\ wpc[e] = "select"
    /\ kind[c] = "get" /\ pc[c] = "send" /\ eng[c] = e
    /\ getWaitStatuses' = [getWaitStatuses EXCEPT ![e] = Push(@, c)]
    /\ IF ~createdElemCh[c]
       THEN /\ createdElemCh' = [createdElemCh EXCEPT ![c] = TRUE]
            /\ wpc' = [wpc EXCEPT ![e] = "deliver"]
       ELSE /\ wpc' = [wpc EXCEPT ![e] = "blocked"]
            /\ UNCHANGED createdElemCh
    /\ pc' = [pc EXCEPT ![c] = "wait"]
    /\ exp' = [exp EXCEPT ![c] = ExpiryStart(c)]
    /\ werr' = [werr EXCEPT ![e] = "none"]
    /\ UNCHANGED <<handlerVars, lockVars, nextCall, kind, name, timeout, missed, eng, ret, sequential, confirmation,
                   msgCh, errCh, messages, managerVars, stopVars>>

\* The expiry case with the send on errCh left out.
DispatchExpiredSilent(e, c) ==
    /\ wpc[e] = "select"
    /\ kind[c] = "get" /\ exp[c] = "send" /\ eng[c] = e
    /\ exp' = [exp EXCEPT ![c] = "done"]
    /\ getWaitStatuses' = [getWaitStatuses EXCEPT ![e] = Remove(@, c)]
    /\ UNCHANGED <<handlerVars, lockVars, callVars, chanVars, messages, wpc, werr, managerVars, stopVars>>

\* case elem := <-q.expiredGetElementsCh: the error is sent, then the element
\* is removed from the waiting list.
DispatchExpired(e, c) ==
    /\ wpc[e] = "select"
    /\ kind[c] = "get" /\ exp[c] = "send" /\ eng[c] = e
    /\ exp' = [exp EXCEPT ![c] = "done"]
    /\ IF errCh[c] = "empty"
       THEN /\ errCh' = [errCh EXCEPT ![c] = ErrNoMessage]
            /\ getWaitStatuses' = [getWaitStatuses EXCEPT ![e] = Remove(@, c)]
            /\ UNCHANGED wpc
       ELSE /\ wpc' = [wpc EXCEPT ![e] = "blocked"]
            /\ UNCHANGED <<errCh, getWaitStatuses>>
    /\ UNCHANGED <<handlerVars, lockVars, callVars, confirmation, msgCh, createdElemCh, messages, werr,
                   managerVars, stopVars>>

\* deliverMessages returning without pairing anything.
DeliverMessagesSkipped(e) ==
    /\ wpc[e] = "deliver"
    /\ wpc' = [wpc EXCEPT ![e] = "select"]
    /\ werr' = [werr EXCEPT ![e] = "none"]
    /\ UNCHANGED <<handlerVars, lockVars, callVars, chanVars, exp, messages, getWaitStatuses,
                   managerVars, stopVars>>

\* deliverMessages over unbuffered msgCh: the worker goes on only when the
\* consumer has taken the message it was sent.
DeliverMessagesUnbuffered(e) ==
    /\ wpc[e] = "deliver"
    /\ \A c \in Calls : eng[c] = e => msgCh[c] = 0
    /\ IF ~(Empty(getWaitStatuses[e]) \/ Empty(messages[e]))
       THEN /\ msgCh' = [msgCh EXCEPT ![Front(getWaitStatuses[e])] = Front(messages[e])]
            /\ getWaitStatuses' = [getWaitStatuses EXCEPT ![e] = Pop(@)]
            /\ messages' = [messages EXCEPT ![e] = Pop(@)]
            /\ UNCHANGED <<wpc, werr>>
       ELSE /\ wpc' = [wpc EXCEPT ![e] = "select"]
            /\ werr' = [werr EXCEPT ![e] = "none"]
            /\ UNCHANGED <<getWaitStatuses, messages, msgCh>>
    /\ UNCHANGED <<handlerVars, lockVars, callVars, confirmation, createdElemCh, errCh, exp,
                   managerVars, stopVars>>

\* One turn of deliverMessages' loop: the first waiter gets the first message;
\* the loop ends when either list is empty.
DeliverMessages(e) ==
    /\ wpc[e] = "deliver"
    /\ IF ~(Empty(getWaitStatuses[e]) \/ Empty(messages[e]))
       THEN LET w == Front(getWaitStatuses[e]) IN
            /\ getWaitStatuses' = [getWaitStatuses EXCEPT ![e] = Pop(@)]
            /\ messages' = [messages EXCEPT ![e] = Pop(@)]
            /\ IF msgCh[w] = 0
               THEN /\ msgCh' = [msgCh EXCEPT ![w] = Front(messages[e])]
                    /\ UNCHANGED wpc
               ELSE /\ wpc' = [wpc EXCEPT ![e] = "blocked"]
                    /\ UNCHANGED msgCh
            /\ UNCHANGED werr
       ELSE \* the case ends and its locals with it
            /\ wpc' = [wpc EXCEPT ![e] = "select"]
            /\ werr' = [werr EXCEPT ![e] = "none"]
            /\ UNCHANGED <<getWaitStatuses, messages, msgCh>>
    /\ UNCHANGED <<handlerVars, lockVars, callVars, confirmation, createdElemCh, errCh, exp,
                   managerVars, stopVars>>

\* case <-q.done: dispatch returns.
DispatchDone(e) ==
    /\ wpc[e] = "select"
    /\ done[e]
    /\ wpc' = [wpc EXCEPT ![e] = "stopped"]
    /\ UNCHANGED <<handlerVars, lockVars, callVars, chanVars, exp, messages, getWaitStatuses, werr,
                   managerVars, stopVars>>

\* ------------------------------------------------------- queueImpl.Put/Get
\* return <-msg.confirmation
PutReturn(c) ==
    /\ kind[c] = "put" /\ pc[c] = "wait"
    /\ confirmation[c] # "empty"
    /\ ret' = [ret EXCEPT ![c] = Result(0, confirmation[c])]
    /\ confirmation' = [confirmation EXCEPT ![c] = "empty"]
    /\ pc' = [pc EXCEPT ![c] = "done"]
    /\ UNCHANGED <<handlerVars, lockVars, nextCall, kind, name, timeout, missed, eng, sequential, msgCh,
                   createdElemCh, errCh, exp, engineVars, managerVars, stopVars>>

\* Get's select, case res = <-ws.msgCh.
GetReturnMsg(c) ==
    /\ kind[c] = "get" /\ pc[c] = "wait"
    /\ msgCh[c] # 0
    /\ ret' = [ret EXCEPT ![c] = Result(msgCh[c], "nil")]
    /\ msgCh' = [msgCh EXCEPT ![c] = 0]
    /\ pc' = [pc EXCEPT ![c] = "done"]
    /\ UNCHANGED <<handlerVars, lockVars, nextCall, kind, name, timeout, missed, eng, sequential, confirmation,
                   createdElemCh, errCh, exp, engineVars, managerVars, stopVars>>

\* Get's select, case err = <-ws.errCh.  With both channels ready the select
\* takes either case.
GetReturnErr(c) ==
    /\ kind[c] = "get" /\ pc[c] = "wait"
    /\ errCh[c] # "empty"
    /\ ret' = [ret EXCEPT ![c] = Result(0, errCh[c])]
    /\ errCh' = [errCh EXCEPT ![c] = "empty"]
    /\ pc' = [pc EXCEPT ![c] = "done"]
    /\ UNCHANGED <<handlerVars, lockVars, nextCall, kind, name, timeout, missed, eng, sequential, confirmation,
                   createdElemCh, msgCh, exp, engineVars, managerVars, stopVars>>

\* <-ctx.Done(): the deadline elapses or the caller cancels.
ExpiryCtxDone(c) ==
    /\ exp[c] = "waitCtx"
    /\ exp' = [exp EXCEPT ![c] = "recvElem"]
    /\ UNCHANGED <<handlerVars, lockVars, callVars, chanVars, engineVars, managerVars, stopVars>>

\* expiredGetElem := <-ws.createdElemCh; the send on expiredGetElementsCh follows.
ExpiryRecvElem(c) ==
    /\ exp[c] = "recvElem"
    /\ createdElemCh[c]
    /\ createdElemCh' = [createdElemCh EXCEPT ![c] = FALSE]
    /\ exp' = [exp EXCEPT ![c] = "send"]
    /\ UNCHANGED <<handlerVars, lockVars, callVars, confirmation, msgCh, errCh, engineVars, managerVars,
                   stopVars>>

\* close(q.done): closing a closed channel panics.
Stop(e) ==
    /\ stops < MaxStops
    /\ wpc[e] # "none"
    /\ stops' = stops + 1
    /\ IF done[e]
       THEN panicked' = TRUE /\ UNCHANGED done
       ELSE done' = [done EXCEPT ![e] = TRUE] /\ UNCHANGED panicked
    /\ UNCHANGED <<handlerVars, lockVars, callVars, chanVars, exp, engineVars, managerVars>>

\* -------------------------------------------------------- queueManagerImpl
\* The lookup answering with whatever queue is registered, under any name.
LookupAny(n) ==
    IF \E m \in Names : queues[m] # 0
    THEN queues[CHOOSE m \in Names : queues[m] # 0]
    ELSE 0

\* The lock taken whoever holds it.
MutexIgnored == TRUE

\* q.mutex.RLock() and q.mutex.Lock() go through when Stop does not hold the
\* lock; the other critical sections are single steps.
MutexFree == mutex = "free"

\* foundQueue = q.queues[name], under the read lock.
Lookup(n) == queues[n]

\* The second look left out: the queue is taken to be still missing.
RecheckSkipped(n) == 0

\* foundQueue = q.queues[name] again, under the write lock.
Recheck(n) == queues[n]

\* The limit test with > for >=.
QueueLimitAbove == Cardinality({n \in Names : queues[n] # 0}) > MaxQueueNum

\* The limit test that never refuses.
QueueLimitNever == FALSE

\* len(q.queues) >= q.config.MaxQueueNum
QueueLimitReached == Cardinality({n \in Names : queues[n] # 0}) >= MaxQueueNum

\* q.factory(...): a new engine, distinct from every engine created before.
NewEngine == CHOOSE e \in Engines : wpc[e] = "none" /\ \A d \in 1..(e - 1) : wpc[d] # "none"

\* Names are opaque strings: the callers' names are enumerated up to renaming,
\* a call taking a name used before or the first unused one.
NameChoice(n) == \A m \in 1..(n - 1) : \E c \in 1..(nextCall - 1) : name[c] = m

\* queueManagerImpl.Put, the read-locked lookup: a queue that is found is
\* written to, a missing one sends the caller to the write-locked section.
ManagerPut(n) ==
    /\ nextCall <= NumMgrCalls
    /\ MutexFree
    /\ NameChoice(n)
    /\ IF Lookup(n) # 0
       THEN /\ Invoke(nextCall, "put", n, 1, Lookup(n), "send", NoResult)
            /\ UNCHANGED missed
       ELSE /\ Invoke(nextCall, "put", n, 1, 0, "create", NoResult)
            /\ missed' = [missed EXCEPT ![nextCall] = TRUE]
    /\ UNCHANGED <<handlerVars, lockVars, chanVars, exp, engineVars, managerVars, stopVars>>

\* queueManagerImpl.Put, the write-locked section: look again, test the limit
\* on the number of queues, create and register the queue.
ManagerPutCreate(c) ==
    /\ kind[c] = "put" /\ pc[c] = "create"
    /\ MutexFree
    /\ IF Recheck(name[c]) # 0
       THEN /\ eng' = [eng EXCEPT ![c] = Recheck(name[c])]
            /\ pc' = [pc EXCEPT ![c] = "send"]
            /\ UNCHANGED <<ret, queues, createdFor, createdBy, wpc>>
       ELSE IF QueueLimitReached
       THEN /\ ret' = [ret EXCEPT ![c] = Result(0, ErrTooManyItems)]
            /\ pc' = [pc EXCEPT ![c] = "done"]
            /\ UNCHANGED <<eng, queues, createdFor, createdBy, wpc>>
       ELSE /\ wpc' = [wpc EXCEPT ![NewEngine] = "select"]
            /\ createdFor' = [createdFor EXCEPT ![NewEngine] = name[c]]
            /\ createdBy' = [createdBy EXCEPT ![NewEngine] = c]
            /\ queues' = [queues EXCEPT ![name[c]] = NewEngine]
            /\ eng' = [eng EXCEPT ![c] = NewEngine]
            /\ pc' = [pc EXCEPT ![c] = "send"]
            /\ UNCHANGED ret
    /\ UNCHANGED <<handlerVars, lockVars, nextCall, kind, name, timeout, missed, sequential, chanVars, exp,
                   messages, getWaitStatuses, werr, stopVars>>

\* Get creating the missing queue, as Put does.
ManagerGetCreating(n, t) ==
    /\ nextCall <= NumMgrCalls
    /\ MutexFree
    /\ NameChoice(n)
    /\ IF Lookup(n) = 0
       THEN /\ Invoke(nextCall, "get", n, t, NewEngine, "send", NoResult)
            /\ wpc' = [wpc EXCEPT ![NewEngine] = "select"]
            /\ createdFor' = [createdFor EXCEPT ![NewEngine] = n]
            /\ createdBy' = [createdBy EXCEPT ![NewEngine] = nextCall]
            /\ queues' = [queues EXCEPT ![n] = NewEngine]
       ELSE /\ Invoke(nextCall, "get", n, t, Lookup(n), "send", NoResult)
            /\ UNCHANGED <<wpc, managerVars>>
    /\ UNCHANGED <<handlerVars, lockVars, missed, chanVars, exp, messages, getWaitStatuses, werr, stopVars>>

\* queueManagerImpl.Get: the read-locked lookup; a missing queue answers
\* ErrNoMessage at once, a found one is asked with the timeout's context.
ManagerGet(n, t) ==
    /\ nextCall <= NumMgrCalls
    /\ MutexFree
    /\ NameChoice(n)
    /\ IF Lookup(n) = 0
       THEN Invoke(nextCall, "get", n, t, 0, "done", Result(0, ErrNoMessage))
       ELSE Invoke(nextCall, "get", n, t, Lookup(n), "send", NoResult)
    /\ UNCHANGED <<handlerVars, lockVars, missed, chanVars, exp, engineVars, managerVars, stopVars>>

\* queueManagerImpl.Stop, q.mutex.Lock(): the range loop is about to visit
\* every registered queue.
ManagerStopLock ==
    /\ stops < MaxStops
    /\ MutexFree
    /\ stops' = stops + 1
    /\ mutex' = "stop"
    /\ toStop' = {queues[n] : n \in Names} \ {0}
    /\ UNCHANGED <<handlerVars, callVars, chanVars, exp, engineVars, managerVars,
                   done, panicked>>

\* One turn of Stop's loop, v.Stop(), in any order of the map: closing a
\* closed done panics, and the deferred Unlock runs as the panic unwinds.
ManagerStopQueue(e) ==
    /\ mutex = "stop"
    /\ e \in toStop
    /\ IF done[e]
       THEN /\ panicked' = TRUE
            /\ mutex' = "free"
            /\ toStop' = {}
            /\ UNCHANGED done
       ELSE /\ done' = [done EXCEPT ![e] = TRUE]
            /\ toStop' = toStop \ {e}
            /\ UNCHANGED <<panicked, mutex>>
    /\ UNCHANGED <<handlerVars, callVars, chanVars, exp, engineVars, managerVars, stops>>

\* The loop is over: the deferred q.mutex.Unlock(), and Stop returns.
ManagerStopUnlock ==
    /\ mutex = "stop"
    /\ toStop = {}
    /\ mutex' = "free"
    /\ UNCHANGED <<handlerVars, callVars, chanVars, exp, engineVars, managerVars,
                   stopVars, toStop>>

\* ----------------------------------------------------------------- handler
StatusOK == 200
StatusBadRequest == 400
StatusNotFound == 404
StatusTooManyRequests == 429
StatusInternalServerError == 500
DefaultTimeout == 10

\* A URL path is a sequence of characters; "q" and "n" stand for the letters
\* of a path component.
PathChars == {"/", "q", "n"}
Paths == {p \in UNION {[1..k -> PathChars] : k \in 1..MaxPathLen} : p[1] = "/"}

Methods == {"GET", "PUT", "POST"}

\* Request bodies, ' standing for the double quote.
Bodies == {"", "{some strange things", "{'message': 'message2}",
           "{'message': 'message1'}", "{'message': ''}", "{}"}

\* The timeout parameter of the query ("": not given).
TimeoutParams == {"", "5", "0", "-1", "some_string"}

\* What the manager answers: the errors of Put and the results of Get.
PutOuts == {[err |-> e] : e \in {"nil", ErrTooManyItems, "Some error"}}
GetOuts == {[message |-> "message1", err |-> e] : e \in {"nil", ErrNoMessage, "Some error"}}

RECURSIVE Split(_)
\* strings.Split(path, "/"): the components between the separators, empty
\* ones included; a path without separator is one component.
Split(p) ==
    IF p = <<>> THEN << <<>> >>
    ELSE LET rest == Split(Tail(p)) IN
         IF Head(p) = "/" THEN << <<>> >> \o rest
         ELSE << <<Head(p)>> \o Head(rest) >> \o Tail(rest)

\* getName: the last component of the path, "" when the path has fewer than
\* two components or the component before the last is empty.
getName(p) ==
    LET pathComponets == Split(p) IN
    IF Len(pathComponets) < 2 THEN <<>>
    ELSE IF Len(pathComponets[Len(pathComponets) - 1]) = 0 THEN <<>>
    ELSE pathComponets[Len(pathComponets)]

\* json.NewDecoder(r.Body).Decode(&m) on the bodies above: an empty body is
\* io.EOF, a broken one a syntax error, an object without the key leaves
\* Message empty.
Decode(body) ==
    CASE body = "{'message': 'message1'}" -> [err |-> "nil", Message |-> "message1"]
      [] body = "{'message': ''}" -> [err |-> "nil", Message |-> ""]
      [] body = "{}" -> [err |-> "nil", Message |-> ""]
      [] body = "" -> [err |-> "EOF", Message |-> ""]
      [] OTHER -> [err |-> "syntax error", Message |-> ""]

\* json.NewEncoder(w).Encode(messageDto{Message: message})
Encode(message) ==
    CASE message = "message1" -> "{'message':'message1'}"
      [] OTHER -> "{'message':''}"

\* strconv.Atoi on the timeout parameters above.
Atoi(a) ==
    CASE a = "5" -> [v |-> 5, err |-> "nil"]
      [] a = "0" -> [v |-> 0, err |-> "nil"]
      [] a = "-1" -> [v |-> 0 - 1, err |-> "nil"]
      [] OTHER -> [v |-> 0, err |-> "invalid syntax"]

\* http.Error(w, "", code): WriteHeader(code), then the empty message and a
\* newline are written to the body.
HttpError(w, code) ==
    [codes |-> Append(w.codes, code), body |-> Append(w.body, "newline")]

\* ResponseRecorder.Code: the code of the first WriteHeader, 200 when the
\* handler called none.
Code(w) == IF w.codes = <<>> THEN StatusOK ELSE w.codes[1]

\* MockQueueManager.Put
MockPut(m, n, message) ==
    [m EXCEPT !.putIn = [callsNum |-> @.callsNum + 1, name |-> n, message |-> message]]

\* MockQueueManager.Get
MockGet(m, n, t) ==
    [m EXCEPT !.getIn = [callsNum |-> @.callsNum + 1, name |-> n, timeout |-> t]]

\* createHandler(manager, defaultTimeout) and httptest.NewRequest: a handler
\* over a mock manager, about to serve one request.
InitHandler ==
    /\ InitCommon
    /\ wpc = [e \in Engines |-> "none"]
    /\ request \in [method : Methods, path : Paths, body : Bodies, timeout : TimeoutParams]
    /\ manager \in {NewMock(g, p) : g \in GetOuts, p \in PutOuts}
    /\ recorder = NewRecorder
    /\ errorLog = <<>>
    /\ hpc = "idle"

\* handlerImpl.serveGet: the name and the timeout are validated, the manager
\* is asked, its answer becomes the body, 404 or 500.
ServeGet ==
    /\ hpc = "idle" /\ request.method = "GET"
    /\ LET nm == getName(request.path)
           timeoutAsStr == request.timeout
           parsed == Atoi(timeoutAsStr)
           parseFailed == nm # <<>> /\ timeoutAsStr # "" /\ parsed.err # "nil"
           isValid == /\ nm # <<>>
                      /\ timeoutAsStr # "" => (parsed.err = "nil" /\ parsed.v > 0)
           t == IF timeoutAsStr # "" THEN parsed.v ELSE DefaultTimeout
           out == manager.getOut
       IN
       IF ~isValid
       THEN /\ errorLog' = IF parseFailed THEN Append(errorLog, "GET timeout parse error")
                                            ELSE errorLog
            /\ recorder' = HttpError(recorder, StatusBadRequest)
            /\ UNCHANGED manager
       ELSE /\ manager' = MockGet(manager, nm, t)
            /\ IF out.err # "nil"
               THEN IF out.err = ErrNoMessage
                    THEN /\ recorder' = HttpError(recorder, StatusNotFound)
                         /\ UNCHANGED errorLog
                    ELSE /\ errorLog' = Append(errorLog, "GET QueueManager error")
                         /\ recorder' = HttpError(recorder, StatusInternalServerError)
               ELSE /\ recorder' = [recorder EXCEPT !.body = Append(@, Encode(out.message))]
                    /\ UNCHANGED errorLog
    /\ hpc' = "served"
    /\ UNCHANGED <<request, brokerVars>>

\* handlerImpl.servePut: the body is decoded, the manager's Put is called
\* with the path's name; after the 429 of ErrTooManyItems the handler goes on
\* to the log line and the 500 that every error gets.
ServePut ==
    /\ hpc = "idle" /\ request.method = "PUT"
    /\ LET nm == getName(request.path)
           m == Decode(request.body)
           err == manager.putOut.err
       IN
       IF m.err # "nil"
       THEN /\ errorLog' = Append(errorLog, "PUT Body JSON decode error")
            /\ recorder' = HttpError(recorder, StatusBadRequest)
            /\ UNCHANGED manager
       ELSE /\ manager' = MockPut(manager, nm, m.Message)
            /\ IF err # "nil"
               THEN /\ errorLog' = Append(errorLog, "PUT QueueManager error")
                    /\ recorder' =
                          HttpError(IF err = ErrTooManyItems
                                    THEN HttpError(recorder, StatusTooManyRequests)
                                    ELSE recorder,
                                    StatusInternalServerError)
               ELSE UNCHANGED <<recorder, errorLog>>
    /\ hpc' = "served"
    /\ UNCHANGED <<request, brokerVars>>

\* ServeHTTP's default case: any other method is a bad request.
ServeDefault ==
    /\ hpc = "idle" /\ request.method \notin {"GET", "PUT"}
    /\ recorder' = HttpError(recorder, StatusBadRequest)
    /\ hpc' = "served"
    /\ UNCHANGED <<request, manager, errorLog, brokerVars>>

\* ------------------------------------------------------------ the engine
\* One engine used directly, as queue_test.go does, and never stopped.
Next ==
    \/ Put(1)
    \/ Get(1)
    \/ \E c \in Calls : DispatchMessage(1, c)
    \/ \E c \in Calls : DispatchGetWait(1, c)
    \/ \E c \in Calls : DispatchExpired(1, c)
    \/ DeliverMessages(1)
    \/ \E c \in Calls : PutReturn(c)
    \/ \E c \in Calls : GetReturnMsg(c)
    \/ \E c \in Calls : GetReturnErr(c)
    \/ \E c \in Calls : ExpiryCtxDone(c)
    \/ \E c \in Calls : ExpiryRecvElem(c)

Spec == Init /\ [][Next]_vars

\* The engine with Stop: the test's q.Stop() and its deferred q.Stop().
NextStop ==
    \/ Next
    \/ Stop(1)
    \/ DispatchDone(1)

SpecStop == Init /\ [][NextStop]_vars

\* The steps of the dispatch goroutine and the return of a confirmed Put.
WorkerProgress ==
    \/ \E c \in Calls : DispatchMessage(1, c)
    \/ \E c \in Calls : DispatchGetWait(1, c)
    \/ \E c \in Calls : DispatchExpired(1, c)
    \/ DeliverMessages(1)
    \/ \E c \in Calls : PutReturn(c)

\* The dispatch goroutine and the producers are scheduled; nothing is
\* assumed of the consumers: a Get may never read its result and a context
\* may never be done.
WorkerFairness == WF_vars(WorkerProgress)

FairSpec == Spec /\ WorkerFairness

\* ----------------------------------------------------------- the manager
\* A manager with the standard factory, never stopped.
NextManager ==
    \/ \E n \in Names : ManagerPut(n)
    \/ \E c \in Calls : ManagerPutCreate(c)
    \/ \E n \in Names, t \in Timeouts : ManagerGet(n, t)
    \/ \E e \in Engines, c \in Calls : DispatchMessage(e, c)
    \/ \E e \in Engines, c \in Calls : DispatchGetWait(e, c)
    \/ \E e \in Engines, c \in Calls : DispatchExpired(e, c)
    \/ \E e \in Engines : DeliverMessages(e)
    \/ \E c \in Calls : PutReturn(c)
    \/ \E c \in Calls : GetReturnMsg(c)
    \/ \E c \in Calls : GetReturnErr(c)
    \/ \E c \in Calls : ExpiryCtxDone(c)
    \/ \E c \in Calls : ExpiryRecvElem(c)

SpecManager == InitManager /\ [][NextManager]_vars

\* ------------------------------------------------------ the HTTP handler
\* handler.ServeHTTP(w, req) on one request, as handler_test.go calls it.
NextHandler ==
    \/ ServeGet
    \/ ServePut
    \/ ServeDefault

SpecHandler == InitHandler /\ [][NextHandler]_vars

\* The manager with Stop: QueueManager.Stop() next to the callers' Puts and Gets.
NextManagerStop ==
    \/ NextManager
    \/ ManagerStopLock
    \/ \E e \in Engines : ManagerStopQueue(e)
    \/ ManagerStopUnlock
    \/ \E e \in Engines : DispatchDone(e)

SpecManagerStop == InitManager /\ [][NextManagerStop]_vars

\* ================================================================ claims
Invoked == 1..(nextCall - 1)
Puts == {c \in Invoked : kind[c] = "put"}
Gets == {c \in Invoked : kind[c] = "get"}

\* No Get's context is done yet.
NoDeadlineFired == \A c \in Calls : exp[c] \in {"none", "waitCtx"}

\* The worker's answer to Put p: "empty" while it has none.
Verdict(p) == IF pc[p] = "done" THEN ret[p].err ELSE confirmation[p]

\* Calls 1..n are Puts and every later call is a Get.
PutsThenGets(n) == \A c \in Invoked : kind[c] = (IF c <= n THEN "put" ELSE "get")

RECURSIVE IndexOf(_, _)
IndexOf(l, v) == IF l = <<>> THEN 0 ELSE IF Head(l) = v THEN 1 ELSE
                 LET i == IndexOf(Tail(l), v) IN IF i = 0 THEN 0 ELSE i + 1
InList(l, v) == IndexOf(l, v) # 0

\* C1: FIFO delivery.  When the calls were made one after the other, N <=
\* MaxMessageNum Puts first and Gets after them, and no deadline fired, every
\* Put was accepted and the i-th Get that returned gave the i-th Put's message
\* with a nil error.
C1_FIFO ==
    \A n \in 0..MaxMessageNum :
        (sequential /\ NoDeadlineFired /\ PutsThenGets(n)) =>
            /\ \A p \in 1..n : p \in Invoked => Verdict(p) \in {"empty", "nil"}
            /\ \A i \in 1..n :
                  (n + i \in Invoked /\ pc[n + i] = "done") =>
                      ret[n + i] = Result(MessageOf(i), "nil")

\* Two Puts then two Gets, one after the other, all returned.
C1_Witness ==
    /\ sequential /\ NoDeadlineFired /\ PutsThenGets(2)
    /\ nextCall = 5 /\ AllReturned

\* The Gets that returned message m.
ReturnedBy(m) == {g \in Gets : pc[g] = "done" /\ ret[g].err = "nil" /\ ret[g].msg = m}

\* C2: exactly once.  In every state no message is returned by two Gets and
\* a returned message is the message of a Put the worker accepted; and when
\* as many Gets as Puts were made, the Puts fit the capacity, no deadline
\* fired and every call has returned, every Put was accepted and its message
\* was returned by exactly one Get.
C2_ExactlyOnce ==
    /\ \A m \in Calls : Cardinality(ReturnedBy(m)) <= 1
    /\ \A g \in Gets : (pc[g] = "done" /\ ret[g].err = "nil") =>
           \E p \in Puts : MessageOf(p) = ret[g].msg /\ Verdict(p) = "nil"
    /\ (/\ NoDeadlineFired /\ AllReturned
        /\ Cardinality(Puts) = Cardinality(Gets)
        /\ Cardinality(Puts) <= MaxMessageNum) =>
           \A p \in Puts : ret[p].err = "nil" /\ Cardinality(ReturnedBy(MessageOf(p))) = 1

\* Two producers and two consumers that overlapped, all returned.
C2_Witness ==
    /\ ~sequential /\ NoDeadlineFired /\ AllReturned
    /\ Cardinality(Puts) = 2 /\ Cardinality(Gets) = 2
    /\ \A p \in Puts : Cardinality(ReturnedBy(MessageOf(p))) = 1

\* C3: message wins over expiry.  A Get whose waiter the worker matched with
\* a message returns that message: no Get has returned ErrNoMessage while the
\* message the worker sent it lies in its msgCh.
C3_MessageWins ==
    \A g \in Gets : (pc[g] = "done" /\ ret[g].err = ErrNoMessage) => msgCh[g] = 0

\* The worker takes Put c in this step.
TakesPut(c) == kind[c] = "put" /\ pc[c] = "send" /\ pc'[c] = "wait"

C4_Step ==
    \A c \in Calls : TakesPut(c) =>
        LET e == eng[c] IN
        IF Len(messages[e]) = MaxMessageNum
        THEN /\ confirmation'[c] = ErrTooManyItems
             /\ messages'[e] = messages[e]
             /\ getWaitStatuses'[e] = getWaitStatuses[e]
        ELSE /\ confirmation'[c] = "nil"
             /\ messages'[e] = Append(messages[e], MessageOf(c))

\* The deliverMessages that follows a rejection changes nothing.
C4_AfterReject ==
    \A e \in Engines : (wpc[e] = "deliver" /\ werr[e] = ErrTooManyItems) =>
        (messages'[e] = messages[e] /\ getWaitStatuses'[e] = getWaitStatuses[e])

\* With no Get made, a Put is rejected only after MaxMessageNum Puts were accepted.
C4_FreshEngine ==
    Gets = {} =>
        \A p \in Puts : Verdict(p) = ErrTooManyItems =>
            Cardinality({a \in Puts : Verdict(a) = "nil"}) = MaxMessageNum

\* C4: capacity rejection.  A Put the worker takes with MaxMessageNum messages
\* stored is answered ErrTooManyItems and leaves messages and getWaitStatuses
\* as they were, also through the delivery step that follows; below the
\* capacity it is accepted; on a fresh engine with no Get the Put after
\* MaxMessageNum accepted ones is the rejected one.
C4_CapacityRejection ==
    /\ [][C4_Step /\ C4_AfterReject]_vars
    /\ [](C4_FreshEngine)

\* A Put was rejected and returned, the stored messages intact.
C4_Witness ==
    /\ Gets = {}
    /\ \E p \in Puts : pc[p] = "done" /\ ret[p].err = ErrTooManyItems
    /\ messages[1] = <<1, 2>>
    /\ wpc[1] = "select"

C10_Changes(e) ==
    LET old == getWaitStatuses[e]
        new == getWaitStatuses'[e] IN
    \* the waiters that stay keep their order, a new one goes behind them
    /\ new = SelectSeq(old, LAMBDA x : InList(new, x))
                \o SelectSeq(new, LAMBDA x : ~InList(old, x))
    \* a waiter leaves with a message or by its own expiry event
    /\ \A a \in Calls : (InList(old, a) /\ ~InList(new, a)) =>
          \/ msgCh[a] = 0 /\ msgCh'[a] # 0
          \/ exp[a] = "send" /\ exp'[a] = "done"
    \* a message goes to the first waiter, and it is the first message
    /\ \A b \in Calls : (eng[b] = e /\ msgCh[b] = 0 /\ msgCh'[b] # 0) =>
          /\ old # <<>> /\ Head(old) = b
          /\ messages[e] # <<>> /\ msgCh'[b] = Head(messages[e])

\* Every step that touches a waiting list or a msgCh.
C10_Step ==
    \A e \in Engines :
        (getWaitStatuses'[e] # getWaitStatuses[e] \/ msgCh' # msgCh) => C10_Changes(e)

\* C10: waiter FIFO.  getWaitStatuses keeps the order of registration, a
\* waiter leaves it only with a message or by its own expiry event, and a
\* message is delivered only to its first waiter: no waiter is served while
\* an earlier one is still waiting.
C10_WaiterFIFO == [][C10_Step]_vars

\* Two waiters were registered; the earlier one has its message, the later
\* one still waits.
C10_Witness ==
    \E a, b \in Gets :
        /\ a # b /\ msgCh[a] # 0
        /\ getWaitStatuses[1] = <<b>>

\* ------------------------------------------------------- manager claims
Registered == {n \in Names : queues[n] # 0}
Created == {e \in Engines : wpc[e] # "none"}

\* Put c was refused by the limit on the number of queues.
LimitRejected(c) == kind[c] = "put" /\ pc[c] = "done" /\ eng[c] = 0

\* The worker sent Get g a message.
Matched(g) == msgCh[g] # 0 \/ (pc[g] = "done" /\ ret[g].err = "nil")

\* Every step but the invocation of a new call.
Progress ==
    \/ \E c \in Calls : ManagerPutCreate(c)
    \/ \E e \in Engines, c \in Calls : DispatchMessage(e, c)
    \/ \E e \in Engines, c \in Calls : DispatchGetWait(e, c)
    \/ \E e \in Engines, c \in Calls : DispatchExpired(e, c)
    \/ \E e \in Engines : DeliverMessages(e)
    \/ \E c \in Calls : PutReturn(c)
    \/ \E c \in Calls : GetReturnMsg(c)
    \/ \E c \in Calls : GetReturnErr(c)
    \/ \E c \in Calls : ExpiryCtxDone(c)
    \/ \E c \in Calls : ExpiryRecvElem(c)

\* The goroutines are scheduled and every context is done in the end (its
\* deadline elapses or it is cancelled): the system does not stop while one
\* of them can take a step.
Fairness == WF_vars(Progress)

FairSpecManager == SpecManager /\ Fairness

\* C5 as stated: a Get whose deadline has elapsed while it had no message and
\* the backlog was empty returns ("", ErrNoMessage) in the end.
C5_EmptyUntilDeadline ==
    \A g \in 1..NumMgrCalls :
        (/\ kind[g] = "get" /\ eng[g] # 0 /\ exp[g] \in {"recvElem", "send"}
         /\ ~Matched(g) /\ messages[eng[g]] = <<>>)
            ~> (pc[g] = "done" /\ ret[g] = Result(0, ErrNoMessage))

C5_Absent ==
    \A g \in Gets : eng[g] = 0 => (pc[g] = "done" /\ ret[g] = Result(0, ErrNoMessage))

C5_NoStale ==
    \A m \in Calls : Cardinality(ReturnedBy(m)) <= 1

\* C5 amended: every manager Get returns in the end, with ("", ErrNoMessage)
\* unless the worker matched it with a message before it processed the Get's
\* expiry event; this holds for timeoutSeconds <= 0 too; a Get on a name
\* that has no queue returns ("", ErrNoMessage) at once; and no message is
\* returned by two Gets.
C5_GetReturns ==
    /\ \A g \in 1..NumMgrCalls :
          (kind[g] = "get") ~>
              (pc[g] = "done" /\ (ret[g] = Result(0, ErrNoMessage) \/ Matched(g)))
    /\ [](\A g \in Gets : (pc[g] = "done" /\ ~Matched(g)) => ret[g] = Result(0, ErrNoMessage))
    /\ [](C5_Absent)
    /\ [](C5_NoStale)

\* A Get with timeoutSeconds 0 on an existing, empty queue returned ErrNoMessage,
\* and a Get on a missing name did.
C5_Witness ==
    /\ \E g \in Gets : /\ timeout[g] = 0 /\ eng[g] # 0 /\ pc[g] = "done"
                       /\ ret[g] = Result(0, ErrNoMessage) /\ exp[g] = "done"
    /\ \E g \in Gets : eng[g] = 0 /\ pc[g] = "done"

\* Put c leaves the write-locked section in this step.
LeavesCreate(c) == kind[c] = "put" /\ pc[c] = "create" /\ pc'[c] # "create"

C6_Step ==
    /\ \A c \in Calls : LeavesCreate(c) =>
          IF queues[name[c]] = 0 /\ Cardinality(Registered) >= MaxQueueNum
          THEN \* the refused Put: nothing registered, nothing stored
               /\ pc'[c] = "done" /\ ret'[c] = Result(0, ErrTooManyItems)
               /\ queues' = queues /\ wpc' = wpc
               /\ messages' = messages /\ getWaitStatuses' = getWaitStatuses
          ELSE \* below the limit, or the name exists: the Put goes to its queue
               /\ pc'[c] = "send" /\ queues'[name[c]] # 0
               /\ eng'[c] = queues'[name[c]]
    \* a call on a registered name is handed to that name's queue
    /\ \A n \in Names : (nextCall' # nextCall /\ name'[nextCall] = n /\ queues[n] # 0) =>
          (pc'[nextCall] = "send" /\ eng'[nextCall] = queues[n])

\* C6: the limit on the number of queues.  A Put to an unseen name is
\* refused with ErrTooManyItems exactly when MaxQueueNum names are registered;
\* the refused Put registers nothing, creates no engine and stores nothing; a
\* Put or Get on a registered name is handed to its queue whatever was refused
\* before; and what a queue's worker answers a Put depends on that queue's
\* backlog alone.
C6_QueueLimit ==
    /\ [](Cardinality(Registered) <= MaxQueueNum)
    /\ [][C6_Step /\ C4_Step]_vars

\* MaxQueueNum names were registered, a Put to one more name was refused,
\* and a later Get on a registered name returned its message.
C6_Witness ==
    /\ Cardinality(Registered) = MaxQueueNum
    /\ \E r \in Puts, g \in Gets :
          /\ LimitRejected(r) /\ ret[r].err = ErrTooManyItems /\ queues[name[r]] = 0
          /\ r < g /\ pc[g] = "done" /\ ret[g].err = "nil" /\ queues[name[g]] # 0

\* The Puts on name n.
PutsOn(n) == {p \in Puts : name[p] = n}

C7_Inv ==
    \* the factory is invoked once for a name
    /\ \A d, e \in Created : d # e => createdFor[d] # createdFor[e]
    /\ \A n \in Names : queues[n] # 0 => (queues[n] \in Created /\ createdFor[queues[n]] = n)
    \* every Put that found or created a queue holds the registered one
    /\ \A p \in Puts : eng[p] # 0 => eng[p] = queues[name[p]]
    \* K <= MaxMessageNum Puts on a registered name are all accepted, into
    \* that one backlog when no Get takes them out
    /\ \A n \in Registered :
          Cardinality(PutsOn(n)) <= MaxMessageNum =>
              \A p \in PutsOn(n) :
                  /\ Verdict(p) \in {"empty", "nil"}
                  /\ (Verdict(p) = "nil" /\ ~(\E g \in Gets : name[g] = n)) =>
                        InList(messages[queues[n]], MessageOf(p))

\* C7: race-free creation.  One engine is created for a name, whatever the
\* interleaving of lookups and write-locked sections; the name maps to it for
\* ever; and K <= MaxMessageNum Puts on the name are all accepted into it.
C7_RaceFreeCreation ==
    /\ [](C7_Inv)
    /\ [][\A n \in Names : queues[n] # 0 => queues'[n] = queues[n]]_vars

\* Two Puts on one name both missed under the read lock; both were accepted
\* into the one engine.
C7_Witness ==
    \E p, q \in Puts :
        /\ p # q /\ name[p] = name[q] /\ missed[p] /\ missed[q]
        /\ Verdict(p) = "nil" /\ Verdict(q) = "nil"
        /\ Len(messages[queues[name[p]]]) = 2

\* C8, its particular case: one Get(name, t > 0) and one Put(name, m) are
\* the only calls; when the Put was accepted and the Get returned while its
\* deadline had not elapsed, the Get returned m.
C8_PutBeforeDeadline ==
    \A g \in Gets, p \in Puts :
        (/\ nextCall = 3 /\ name[g] = name[p] /\ timeout[g] > 0
         /\ pc[p] = "done" /\ ret[p].err = "nil"
         /\ pc[g] = "done" /\ exp[g] \in {"none", "waitCtx"}) =>
            ret[g] = Result(MessageOf(p), "nil")

\* This step invokes a manager Get.
InvokesGet == nextCall' # nextCall /\ kind'[nextCall] = "get"

C9_Step ==
    /\ InvokesGet =>
          /\ queues' = queues /\ wpc' = wpc /\ createdFor' = createdFor
          /\ createdBy' = createdBy
          /\ queues[name'[nextCall]] = 0 =>
                (pc'[nextCall] = "done" /\ ret'[nextCall] = Result(0, ErrNoMessage))
    \* the mapping changes only by a Put that registers its missing name
    /\ queues' # queues =>
          \E c \in Calls :
              /\ LeavesCreate(c) /\ queues[name[c]] = 0
              /\ Cardinality(Registered) < MaxQueueNum
              /\ queues' = [queues EXCEPT ![name[c]] = eng'[c]]

\* C9: a manager Get never changes the mapping from names to queues and
\* creates no engine; on a missing name it returns ("", ErrNoMessage); the
\* mapping changes only when a Put registers a missing name below the limit.
C9_GetReadOnly == [][C9_Step]_vars

\* A Get on a missing name returned ErrNoMessage and a later Put created
\* that name's queue.
C9_Witness ==
    \E g \in Gets, p \in Puts :
        /\ g < p /\ name[g] = name[p] /\ eng[g] = 0 /\ pc[g] = "done"
        /\ missed[p] /\ queues[name[p]] = eng[p] /\ eng[p] # 0

\* C11: closed error taxonomy.  A manager Put that returned gave nil or
\* ErrTooManyItems (the engine's rejection and the manager's are the same
\* value); a manager Get that returned gave ("", ErrNoMessage) or a message
\* with a nil error, the message being one that a Put on the same name had
\* accepted; no call returned a message next to an error.
C11_ClosedErrors ==
    /\ \A p \in Puts : pc[p] = "done" =>
          ret[p] \in {Result(0, "nil"), Result(0, ErrTooManyItems)}
    /\ \A g \in Gets : pc[g] = "done" =>
          \/ ret[g] = Result(0, ErrNoMessage)
          \/ /\ ret[g].err = "nil" /\ ret[g].msg # 0
             /\ \E p \in Puts : /\ name[p] = name[g] /\ MessageOf(p) = ret[g].msg
                                /\ Verdict(p) = "nil"
    /\ \A c \in Invoked : ret[c].msg # 0 => ret[c].err = "nil"

\* The engine's rejection reached the caller of the manager's Put: the
\* name's queue is registered and full, and the Put returned ErrTooManyItems.
C11_Witness ==
    \E p \in Puts :
        /\ pc[p] = "done" /\ eng[p] # 0 /\ ret[p] = Result(0, ErrTooManyItems)
        /\ queues[name[p]] = eng[p] /\ Len(messages[eng[p]]) = MaxMessageNum

\* C18: registry size bound.  In every reachable state at most MaxQueueNum
\* names are registered, whatever the interleaving of Puts on unseen names.
C18_RegistryBound == Cardinality(Registered) <= MaxQueueNum

\* Two Puts on different unseen names both missed under the read lock while
\* one place was left; one registered its name, the other was refused.
C18_Witness ==
    /\ Cardinality(Registered) = MaxQueueNum
    /\ \E p, r \in Puts :
          /\ name[p] # name[r] /\ missed[p] /\ missed[r]
          /\ queues[name[p]] # 0 /\ createdBy[queues[name[p]]] = p
          /\ LimitRejected(r) /\ ret[r].err = ErrTooManyItems /\ queues[name[r]] = 0

\* C19: registry entries come only from successful Puts.  The Put that
\* registered a name returns nil: no Put that returned ErrTooManyItems has
\* changed the mapping from names to queues, whether the manager's limit or
\* the engine's capacity refused it.
C19_OnlySuccessfulPuts ==
    \A e \in Created :
        (createdBy[e] # 0 /\ pc[createdBy[e]] = "done") => ret[createdBy[e]].err = "nil"

\* ------------------------------------------------------- engine invariants
\* C16: no coexisting message and waiter.  Whenever the worker is between
\* events (at its select), messages and getWaitStatuses are not both
\* non-empty, after every sequence of Puts, Gets and expiries.
C16_NoCoexistence ==
    \A e \in Engines : wpc[e] = "select" =>
        (Empty(messages[e]) \/ Empty(getWaitStatuses[e]))

\* The worker is between events after a Put, a registration and an expiry:
\* one Get expired, one was served, and a message is stored with no waiter.
C16_Witness ==
    /\ wpc[1] = "select"
    /\ \E g \in Gets : exp[g] = "done" /\ pc[g] = "done" /\ ret[g].err = ErrNoMessage
    /\ \E g \in Gets : pc[g] = "done" /\ ret[g].err = "nil"
    /\ messages[1] # <<>> /\ getWaitStatuses[1] = <<>>

\* C17: backlog bound.  In every reachable state an engine stores at most
\* MaxMessageNum messages, whatever the interleaving of Puts, Gets and
\* expiries.
C17_BacklogBound ==
    \A e \in Engines : Len(messages[e]) >= 0 /\ Len(messages[e]) <= MaxMessageNum

\* The backlog is full, a Put was rejected at the limit and, after a Get took
\* a message out, a later Put was accepted again.
C17_Witness ==
    /\ Len(messages[1]) = MaxMessageNum
    /\ \E r, p \in Puts : /\ r < p /\ Verdict(r) = ErrTooManyItems
                          /\ Verdict(p) = "nil" /\ InList(messages[1], MessageOf(p))

\* The worker is still in the event of Put p: it accepted the message, sent
\* the confirmation and has not finished the deliverMessages that follows.
InEventOf(p) ==
    LET e == eng[p] IN
    /\ kind[p] = "put" /\ e # 0
    /\ wpc[e] = "deliver" /\ werr[e] = "nil"
    /\ messages[e] # <<>> /\ messages[e][Len(messages[e])] = MessageOf(p)

\* C20: delivery precedes Put's return.  When a Put has returned nil, the
\* worker has finished the delivery step of that Put's event: there is no
\* state in which the Put has returned, the worker is still in its event,
\* the message is in the backlog and a waiter registered before it is waiting.
C20_DeliveryBeforeReturn ==
    \A p \in Puts :
        (pc[p] = "done" /\ ret[p].err = "nil" /\ InEventOf(p)) =>
            Empty(getWaitStatuses[eng[p]])

\* The worker processes the expiry event of Get c in this step.
TakesExpiry(c) == kind[c] = "get" /\ exp[c] = "send" /\ exp'[c] = "done"

\* Get c's expiry event was processed while c was waiting: c was never
\* handed a message.
ExpiredWaiting(c) == kind[c] = "get" /\ exp[c] = "done" /\ ~Matched(c)

C21_Step ==
    \A c \in Calls :
        LET e == eng[c] IN
        \* the event of a waiter that is still in the list
        /\ (TakesExpiry(c) /\ InList(getWaitStatuses[e], c)) =>
              /\ getWaitStatuses'[e] = SelectSeq(getWaitStatuses[e], LAMBDA x : x # c)
              /\ Len(getWaitStatuses'[e]) = Len(getWaitStatuses[e]) - 1
              /\ messages' = messages
              /\ msgCh' = msgCh /\ msgCh[c] = 0
              /\ errCh'[c] = ErrNoMessage
              /\ pc[c] = "wait"
        \* the removed waiter is never handed a message
        /\ ExpiredWaiting(c) => msgCh'[c] = 0

\* C21: expiry removes exactly one waiter.  When the worker processes the
\* expiry event of a waiter that is still in getWaitStatuses, it removes that
\* waiter alone, keeps the order of the others and the whole backlog, and
\* answers ErrNoMessage; the removed waiter is in the list no more, no later
\* message is delivered to it, and its Get returns ("", ErrNoMessage).
C21_ExpiryRemovesOne ==
    /\ [][C21_Step]_vars
    /\ [](\A c \in Calls : ExpiredWaiting(c) =>
             /\ ~InList(getWaitStatuses[eng[c]], c)
             /\ pc[c] = "done" => ret[c] = Result(0, ErrNoMessage))

\* Of three waiters the middle one expired and returned ErrNoMessage; a
\* message went to the first one and the last one still waits.
C21_Witness ==
    \E a, b, c \in Gets, p \in Puts :
        /\ a < b /\ b < c
        /\ ExpiredWaiting(b) /\ pc[b] = "done" /\ ret[b] = Result(0, ErrNoMessage)
        /\ msgCh[a] = MessageOf(p)
        /\ getWaitStatuses[1] = <<c>>
        /\ messages[1] = <<>>

\* The worker sends on a one-slot channel of call c in this step.
SendsConfirmation(c) == TakesPut(c)
SendsCreatedElem(c) == kind[c] = "get" /\ pc[c] = "send" /\ pc'[c] = "wait"
SendsMsg(c) ==
    /\ kind[c] = "get" /\ eng[c] # 0 /\ wpc[eng[c]] = "deliver"
    /\ getWaitStatuses[eng[c]] # <<>> /\ Head(getWaitStatuses[eng[c]]) = c
    /\ getWaitStatuses'[eng[c]] # getWaitStatuses[eng[c]]

C24_Step ==
    \A c \in Calls :
        /\ SendsConfirmation(c) => (confirmation[c] = "empty" /\ confirmation'[c] # "empty")
        /\ SendsCreatedElem(c) => (~createdElemCh[c] /\ createdElemCh'[c])
        /\ SendsMsg(c) => (msgCh[c] = 0 /\ msgCh'[c] # 0)
        /\ TakesExpiry(c) => (errCh[c] = "empty" /\ errCh'[c] = ErrNoMessage)

\* C24: the worker never blocks on a reply channel.  Every send of the
\* worker (a Put's confirmation, a waiter's created element, message and
\* error) finds the channel's slot free and fills it in the same step, also
\* the error of an expiry event whose waiter was served and whose caller has
\* returned; the worker is never stuck in a send.
C24_NeverBlocks ==
    /\ [][C24_Step]_vars
    /\ [](\A e \in Engines : wpc[e] # "blocked")

\* A Get was served and returned its message; the worker then processed its
\* expiry event, the error lies unread in errCh, and the worker went on to
\* accept another Put.
C24_Witness ==
    \E g \in Gets, p \in Puts :
        /\ pc[g] = "done" /\ ret[g].err = "nil"
        /\ exp[g] = "done" /\ errCh[g] = ErrNoMessage
        /\ ret[g].msg # MessageOf(p) /\ confirmation[p] = "nil"
        /\ wpc[1] = "select"

\* C22: Put always completes.  On an engine that is not stopped every Put
\* returns in the end, with nil or ErrTooManyItems, when the worker and the
\* producer are scheduled, whatever the Gets do: waiting, expired and not yet
\* processed, or never reading their result.
C22_PutCompletes ==
    \A p \in 1..NumCalls :
        (kind[p] = "put") ~>
            (pc[p] = "done" /\ ret[p] \in {Result(0, "nil"), Result(0, ErrTooManyItems)})

\* A Put has returned while one Get has not read the message it was sent,
\* the expiry event of another has not been processed and a third waits.
C22_Witness ==
    \E p \in Puts, a, b, c \in Gets :
        /\ pc[p] = "done" /\ ret[p] = Result(0, "nil")
        /\ pc[a] = "wait" /\ msgCh[a] = MessageOf(p)
        /\ exp[b] = "send" /\ pc[b] = "wait"
        /\ getWaitStatuses[1] = <<b, c>>

\* ---------------------------------------------------------- engine, stopped
C12_Step ==
    \A e \in Engines : (done[e] /\ wpc[e] = "select" /\ ~panicked) =>
        \* the worker takes no event
        /\ wpc'[e] \in {"select", "stopped"}
        /\ \A c \in Calls : eng[c] = e =>
              /\ pc[c] = "send" => pc'[c] = "send"
              /\ exp[c] = "send" => exp'[c] = "send"
        \* and backlog and waiters stay as they are
        /\ messages'[e] = messages[e]
        /\ getWaitStatuses'[e] = getWaitStatuses[e]

\* C12: shutdown stops processing.  Once done is closed and the worker is at
\* its select, it takes no Put, no Get registration and no expiry event, also
\* when one was waiting on its channel at the moment of Stop: messages and
\* getWaitStatuses never change again and no pending Put is accepted.
C12_StopStopsProcessing == [][C12_Step]_vars

\* C13: Stop can be repeated.  A second Stop on the engine completes without
\* a failure: no goroutine has panicked after two Stops.
C13_StopRepeatable == stops >= 2 => ~panicked

\* ------------------------------------------------------- handler claims
\* The paths of the requests without a queue name: "/queue/" and "/queue".
EmptyNamePaths == {<<"/", "q", "/">>, <<"/", "q">>}

\* C14: invalid PUT requests never reach the manager.  A served PUT whose
\* path has an empty or missing queue name, whatever its body, or whose body
\* is not valid JSON, was answered 400 and the manager's Put and Get were
\* called zero times.
C14_InvalidPutRejected ==
    (/\ hpc = "served" /\ request.method = "PUT"
     /\ (request.path \in EmptyNamePaths \/ Decode(request.body).err # "nil")) =>
        /\ Code(recorder) = StatusBadRequest
        /\ manager.putIn.callsNum = 0
        /\ manager.getIn.callsNum = 0

\* C15: PUT status mapping.  A served PUT with a queue name and a valid JSON
\* body called the manager's Put once, with the path's name and the body's
\* message, and Get never; the handler produced one response outcome, 200
\* for nil, 429 for ErrTooManyItems and 500 for any other error; and an
\* ErrTooManyItems was not also reported as an internal error.
C15_PutStatusMapping ==
    (/\ hpc = "served" /\ request.method = "PUT"
     /\ getName(request.path) # <<>> /\ Decode(request.body).err = "nil") =>
        LET err == manager.putOut.err IN
        /\ manager.putIn = [callsNum |-> 1, name |-> getName(request.path),
                             message |-> Decode(request.body).Message]
        /\ manager.getIn.callsNum = 0
        /\ Len(recorder.codes) <= 1
        /\ Code(recorder) = (IF err = "nil" THEN StatusOK
                              ELSE IF err = ErrTooManyItems THEN StatusTooManyRequests
                              ELSE StatusInternalServerError)
        /\ err = ErrTooManyItems =>
              /\ errorLog = <<>>
              /\ \A i \in 1..Len(recorder.codes) :
                    recorder.codes[i] # StatusInternalServerError

\* ------------------------------------------------------- manager, stopped
\* Stop returns in this step.
StopReturns == mutex = "stop" /\ mutex' = "free" /\ ~panicked'

C23_Step ==
    \* when Stop returns, every registered queue has its done closed
    /\ StopReturns => \A n \in Names : queues'[n] # 0 => done'[queues'[n]]
    \* while Stop holds the lock no queue is created or registered
    /\ mutex = "stop" =>
          (queues' = queues /\ \A e \in Engines : wpc[e] = "none" => wpc'[e] = "none")
    \* no step, and no step of Stop, removes a name
    /\ \A n \in Names : queues[n] # 0 => queues'[n] = queues[n]

\* C23: the manager's Stop reaches every queue.  When Stop returns, done is
\* closed for every queue registered at that time; no queue is created or
\* registered between Stop's Lock and Unlock; and Stop removes no name from
\* the mapping.
C23_StopReachesAll == [][C23_Step]_vars

\* Stop has returned with the registered queue stopped, while a Put on
\* another name that missed under the read lock still waits for the lock.
C23_Witness ==
    /\ stops = 1 /\ mutex = "free" /\ ~panicked
    /\ \E n \in Names : queues[n] # 0 /\ done[queues[n]]
    /\ \E p \in Puts : pc[p] = "create" /\ missed[p]

====
